---- MODULE Spec2Model ----
(***************************************************************************)
(* State-machine model of the minio client: the multipart orchestrators of *)
(* src/src/client/operate_object.rs (put_object, put_object_large,         *)
(* put_object_stream, fput_object) and the request path of                 *)
(* src/src/client/client.rs (_execute, _url_open).                         *)
(*                                                                         *)
(* Every request of a multipart session (create_multipart_upload,          *)
(* upload_part, complete_multipart_upload, abort_multipart_upload) is an   *)
(* awaited call: the orchestrator issues it, is suspended, and resumes     *)
(* with Ok, with Err, or not at all (the transport failure is unwrapped in *)
(* _url_open and panics the task).  The log `calls` records every request  *)
(* with its outcome.                                                       *)
(***************************************************************************)
EXTENDS Integers, Sequences, FiniteSets, TLC

(* ---- bounds of the model ---- *)
\* MIN_PART_SIZE and MAX_MULTIPART_OBJECT_SIZE are imported from crate::signer
\* (operate_object.rs:6); the model scales them down from 5 MiB and 5 TiB.
MIN_PART_SIZE == 2
MAX_MULTIPART_OBJECT_SIZE == 6
MaxLen == 7          \* longest payload / file, in bytes
MaxChunks == 3       \* most items of an input stream
MaxChunkLen == 3     \* longest chunk of an input stream
MaxRequests == 2     \* most requests issued one after the other
MaxClock == 1        \* last tick of the wall clock
MaxRotations == 1    \* most rotations of the provider's credentials
MaxBuilderCalls == 3 \* most setter calls on a Builder before build()
MaxTasks == 3        \* tasks that use one client concurrently
MaxPages == 3        \* most pages list_objects_stream asks for
MaxPageLen == 2      \* most objects of one page

VARIABLES
    op,        \* the top-level operation that was called
    pc,        \* where the task is: "idle", an await point, "done", "panicked"
    data,      \* put_object: the payload; fput_object: the file's content
    stream,    \* put_object_stream: the items of the input stream
    consumed,  \* put_object_stream: number of items taken by stream.next()
    i,         \* loop index of put_object_large / fput_object
    fpos,      \* fput_object: read position of the file
    buffer,    \* fput_object: the BytesMut being filled
    current,   \* put_object_stream: the Vec<u8> being filled
    parts,     \* the Vec of parts returned by upload_part
    err,       \* the error held while abort_multipart_upload is awaited
    calls,     \* log of the session's requests, each with its outcome
    req,       \* _execute: the request's arguments
    net,       \* _execute: log of network-side activity
    now,       \* the wall clock read by Utc::now()
    provider,  \* the credentials the Provider currently hands out
    reqno,     \* number of calls of _execute so far
    loc,       \* _url_open: headers, content_sha256 and date of the request
    builder,   \* the Builder being configured
    bcalls,    \* log of the setter calls made on the Builder
    client,    \* MinioRef: the endpoint of the built client
    lock,      \* the Mutex around the provider: the task holding it, or 0
    tpc,       \* where each of the concurrent tasks is
    args,      \* list_objects_stream: the arguments of the next page, if any
    pages,     \* list_objects_stream: log of the list_objects calls
    inner,     \* list_objects_stream: items of the page being flattened
    yielded,   \* list_objects_stream: the items the stream has yielded
    file,      \* fget_object: the bytes written to the file
    result     \* the value returned to the caller (meaningful at pc = "done")

vars == <<op, pc, data, stream, consumed, i, fpos, buffer, current, parts,
          err, calls, req, net, now, provider, reqno, loc, builder, bcalls,
          client, lock, tpc, args, pages, inner, yielded, file, result>>

\* the state of the request path, untouched by the multipart orchestrators
setup == <<builder, bcalls, client, lock, tpc>>
exec == <<req, net, now, provider, reqno, loc, setup>>
\* the state of list_objects_stream and of fget_object
ext == <<args, pages, inner, yielded, file>>

(* ---- values ---- *)
Ok == [ok |-> TRUE, err |-> "none"]
Err(e) == [ok |-> FALSE, err |-> e]

\* The bytes of a payload are numbered, so that loss, duplication and
\* reordering are visible.
Payload(L) == [k \in 1..L |-> k]

\* Outcomes of an awaited request: Ok(_), Err(_), or the panic of the
\* unwrap() on the transport result.
Outcomes == {"ok", "err", "panic"}

\* The items of a stream from its chunk sizes; a size of -1 is an Err item.
RECURSIVE MkStream(_, _)
MkStream(sizes, base) ==
    IF sizes = <<>> THEN <<>>
    ELSE IF Head(sizes) < 0
         THEN <<[ok |-> FALSE, bytes |-> <<>>]>> \o MkStream(Tail(sizes), base)
         ELSE <<[ok |-> TRUE, bytes |-> [k \in 1..Head(sizes) |-> base + k]]>>
              \o MkStream(Tail(sizes), base + Head(sizes))

(* ---- the request log ---- *)
Request(kind, n, body, plist) ==
    [kind |-> kind, part_number |-> n, body |-> body, parts |-> plist,
     res |-> "pending"]

CreateReq == Request("create_multipart_upload", 0, <<>>, <<>>)
UploadPartReq(n, body) == Request("upload_part", n, body, <<>>)
CompleteReq(plist) == Request("complete_multipart_upload", 0, <<>>, plist)
AbortReq == Request("abort_multipart_upload", 0, <<>>, <<>>)
PutReq(body) == Request("put", 0, body, <<>>)

Issue(c, r) == Append(c, r)
\* The awaited request is the last one issued.
Respond(c, r) == [c EXCEPT ![Len(c)].res = r]
Awaited(kind) == calls # <<>> /\ calls[Len(calls)].kind = kind
                 /\ calls[Len(calls)].res = "pending"

\* The Part that upload_part returns: its number and the etag of its body
\* (the etag identifies the content, so the body stands for it).
Part(n, body) == [part_number |-> n, etag |-> body]

\* return `r` to the caller
Return(r) == result' = r /\ pc' = "done"
\* the task unwinds: nothing is returned
Panic == pc' = "panicked" /\ UNCHANGED result


(* ---- the `?` on the result of create_multipart_upload ---- *)
PropagatesNever(r) == FALSE
\* `create_multipart_upload(..).await?` returns the Err to the caller.
Propagates(r) == r # "ok"

(* ---- the result returned after abort_multipart_upload was awaited ---- *)
AfterAbortKeepsOriginal(e, r) == Err(e)
\* `abort(..).await?; return Err(err)` and
\* `match abort(..).await { Ok(_) => Err(e), Err(err) => Err(err) }`
AfterAbort(e, r) ==
    IF r = "ok" THEN Err(e) ELSE Err("abort_multipart_upload")

(* ---- splitting arithmetic of put_object_large and fput_object ---- *)
PartCountCeil(len) ==
    IF len > MIN_PART_SIZE
    THEN (len + MIN_PART_SIZE - 1) \div MIN_PART_SIZE
    ELSE 1
PartCount(len) ==
    IF len > MIN_PART_SIZE THEN len \div MIN_PART_SIZE + 1 ELSE 1

PartStart(idx) == idx * MIN_PART_SIZE
PartEnd(idx, len) ==
    IF idx = PartCount(len) - 1 THEN len ELSE PartStart(idx) + MIN_PART_SIZE
\* Bytes::slice(start..end)
Slice(d, start, end) == SubSeq(d, start + 1, end)

(* ---- the part number of the next upload ---- *)
NextPartNumberStale(ps) == IF ps = <<>> THEN 1 ELSE Len(ps)
\* parts.len().add(1)
NextPartNumber(ps) == Len(ps) + 1

(***************************************************************************)
(* put_object and put_object_large                                         *)
(***************************************************************************)
PutObjectEntryAtLeast(c, d) ==
    /\ data' = d
    /\ IF Len(d) >= MIN_PART_SIZE
       THEN calls' = Issue(c, CreateReq) /\ pc' = "large_create"
       ELSE calls' = Issue(c, PutReq(d)) /\ pc' = "put_send"
    /\ UNCHANGED result
\* put_object called with payload d, up to its first await.
PutObjectEntry(c, d) ==
    /\ data' = d
    /\ IF Len(d) > MIN_PART_SIZE
       THEN calls' = Issue(c, CreateReq) /\ pc' = "large_create"
       ELSE calls' = Issue(c, PutReq(d)) /\ pc' = "put_send"
    /\ UNCHANGED result

CallPutObject ==
    /\ pc = "idle"
    /\ op' = "put_object"
    /\ \E L \in 0..MaxLen : PutObjectEntry(calls, Payload(L))
    /\ UNCHANGED <<stream, consumed, i, fpos, buffer, current, parts, err,
                   exec, ext>>

\* the single PUT returned (send_ok().await?)
PutObjectReturn ==
    /\ pc = "put_send" /\ Awaited("put")
    /\ \E r \in Outcomes :
        /\ calls' = Respond(calls, r)
        /\ CASE r = "ok" -> Return(Ok)
             [] r = "err" -> Return(Err("put"))
             [] r = "panic" -> Panic
    /\ UNCHANGED <<op, data, stream, consumed, i, fpos, buffer, current,
                   parts, err, exec, ext>>

\* head of `for i in 0..part_count` with i = idx and parts = ps
LargeLoop(c, idx, ps) ==
    /\ i' = idx
    /\ parts' = ps
    /\ IF idx < PartCount(Len(data))
       THEN /\ calls' = Issue(c, UploadPartReq(idx + 1,
                          Slice(data, PartStart(idx), PartEnd(idx, Len(data)))))
            /\ pc' = "large_part"
       ELSE /\ calls' = Issue(c, CompleteReq(ps))
            /\ pc' = "large_complete"

LargeCreateReturn ==
    /\ pc = "large_create" /\ Awaited("create_multipart_upload")
    /\ \E r \in Outcomes :
        IF r = "panic"
        THEN calls' = Respond(calls, r) /\ Panic /\ UNCHANGED <<i, parts>>
        ELSE IF Propagates(r)
        THEN /\ calls' = Respond(calls, r)
             /\ Return(Err("create_multipart_upload"))
             /\ UNCHANGED <<i, parts>>
        ELSE LargeLoop(Respond(calls, r), 0, <<>>) /\ UNCHANGED result
    /\ UNCHANGED <<op, data, stream, consumed, fpos, buffer, current, err,
                   exec, ext>>

\* a failed part is skipped and the loop goes on
LargePartReturnSkipping ==
    /\ pc = "large_part" /\ Awaited("upload_part")
    /\ \E r \in Outcomes :
        CASE r = "ok" ->
               /\ LargeLoop(Respond(calls, r), i + 1,
                     Append(parts, Part(i + 1, calls[Len(calls)].body)))
               /\ UNCHANGED <<err, result>>
          [] r = "err" ->
               /\ LargeLoop(Respond(calls, r), i + 1, parts)
               /\ UNCHANGED <<err, result>>
          [] r = "panic" ->
               calls' = Respond(calls, r) /\ Panic /\ UNCHANGED <<i, parts, err>>
    /\ UNCHANGED <<op, data, stream, consumed, fpos, buffer, current,
                   exec, ext>>
LargePartReturn ==
    /\ pc = "large_part" /\ Awaited("upload_part")
    /\ \E r \in Outcomes :
        CASE r = "ok" ->
               /\ LargeLoop(Respond(calls, r), i + 1,
                     Append(parts, Part(i + 1, calls[Len(calls)].body)))
               /\ UNCHANGED <<err, result>>
          [] r = "err" ->
               /\ calls' = Issue(Respond(calls, r), AbortReq)
               /\ err' = "upload_part"
               /\ pc' = "large_abort"
               /\ UNCHANGED <<i, parts, result>>
          [] r = "panic" ->
               calls' = Respond(calls, r) /\ Panic /\ UNCHANGED <<i, parts, err>>
    /\ UNCHANGED <<op, data, stream, consumed, fpos, buffer, current,
                   exec, ext>>

LargeAbortReturn ==
    /\ pc = "large_abort" /\ Awaited("abort_multipart_upload")
    /\ \E r \in Outcomes :
        /\ calls' = Respond(calls, r)
        /\ IF r = "panic" THEN Panic ELSE Return(AfterAbort(err, r))
    /\ UNCHANGED <<op, data, stream, consumed, i, fpos, buffer, current,
                   parts, err, exec, ext>>

\* a failed completion is followed by an abort
LargeCompleteReturnAborting ==
    /\ pc = "large_complete" /\ Awaited("complete_multipart_upload")
    /\ \E r \in Outcomes :
        CASE r = "ok" -> calls' = Respond(calls, r) /\ Return(Ok) /\ UNCHANGED err
          [] r = "err" ->
               /\ calls' = Issue(Respond(calls, r), AbortReq)
               /\ err' = "complete_multipart_upload"
               /\ pc' = "large_abort"
               /\ UNCHANGED result
          [] r = "panic" -> calls' = Respond(calls, r) /\ Panic /\ UNCHANGED err
    /\ UNCHANGED <<op, data, stream, consumed, i, fpos, buffer, current,
                   parts, exec, ext>>
\* complete_multipart_upload(..).await.map(|_| ())
LargeCompleteReturn ==
    /\ pc = "large_complete" /\ Awaited("complete_multipart_upload")
    /\ \E r \in Outcomes :
        /\ calls' = Respond(calls, r)
        /\ CASE r = "ok" -> Return(Ok)
             [] r = "err" -> Return(Err("complete_multipart_upload"))
             [] r = "panic" -> Panic
    /\ UNCHANGED <<op, data, stream, consumed, i, fpos, buffer, current,
                   parts, err, exec, ext>>

(***************************************************************************)
(* put_object_stream                                                       *)
(***************************************************************************)
ShouldFlushAny(cur) == Len(cur) > 0
\* if current.len() >= MIN_PART_SIZE
ShouldFlush(cur) == Len(cur) >= MIN_PART_SIZE

ExtendOverwrites(cur, bytes) == bytes
\* current.extend(open_piece.to_vec())
Extend(cur, bytes) == cur \o bytes

CallPutObjectStream ==
    /\ pc = "idle"
    /\ op' = "put_object_stream"
    /\ \E n \in 0..MaxChunks : \E sizes \in [1..n -> -1..MaxChunkLen] :
          stream' = MkStream(sizes, 0)
    /\ calls' = Issue(calls, CreateReq)
    /\ pc' = "stream_create"
    /\ UNCHANGED <<data, consumed, i, fpos, buffer, current, parts, err,
                   exec, ext, result>>

StreamCreateReturn ==
    /\ pc = "stream_create" /\ Awaited("create_multipart_upload")
    /\ \E r \in Outcomes :
        /\ calls' = Respond(calls, r)
        /\ IF r = "panic" THEN Panic
           ELSE IF Propagates(r) THEN Return(Err("create_multipart_upload"))
           ELSE pc' = "stream_next" /\ UNCHANGED result
    /\ UNCHANGED <<op, data, stream, consumed, i, fpos, buffer, current,
                   parts, err, exec, ext>>

\* `match piece`: extend the buffer, or todo!() on an Err item
TakePiece(piece, cur) ==
    IF piece.ok
    THEN current' = Extend(cur, piece.bytes) /\ pc' = "stream_next"
         /\ UNCHANGED result
    ELSE current' = cur /\ Panic

\* stream.next().await returned
StreamNext ==
    /\ pc = "stream_next"
    /\ IF consumed < Len(stream)
       THEN /\ consumed' = consumed + 1
            /\ IF ShouldFlush(current)
               THEN /\ calls' = Issue(calls,
                          UploadPartReq(NextPartNumber(parts), current))
                    /\ pc' = "stream_part"
                    /\ UNCHANGED <<current, result>>
               ELSE /\ TakePiece(stream[consumed + 1], current)
                    /\ UNCHANGED calls
       ELSE /\ IF current # <<>>
               THEN /\ calls' = Issue(calls,
                          UploadPartReq(NextPartNumber(parts), current))
                    /\ pc' = "stream_last_part"
               ELSE /\ calls' = Issue(calls, CompleteReq(parts))
                    /\ pc' = "stream_complete"
            /\ UNCHANGED <<consumed, current, result>>
    /\ UNCHANGED <<op, data, stream, i, fpos, buffer, parts, err, exec, ext>>

\* the upload of a part inside the loop returned
StreamPartReturn ==
    /\ pc = "stream_part" /\ Awaited("upload_part")
    /\ \E r \in Outcomes :
        CASE r = "ok" ->
               /\ calls' = Respond(calls, r)
               /\ parts' = Append(parts, Part(calls[Len(calls)].part_number,
                                              calls[Len(calls)].body))
               /\ TakePiece(stream[consumed], <<>>)
               /\ UNCHANGED err
          [] r = "err" ->
               /\ calls' = Issue(Respond(calls, r), AbortReq)
               /\ err' = "upload_part"
               /\ pc' = "stream_abort"
               /\ UNCHANGED <<current, parts, result>>
          [] r = "panic" ->
               /\ calls' = Respond(calls, r) /\ Panic
               /\ UNCHANGED <<current, parts, err>>
    /\ UNCHANGED <<op, data, stream, consumed, i, fpos, buffer, exec, ext>>

\* the upload of the remaining bytes after the loop returned
StreamLastPartReturn ==
    /\ pc = "stream_last_part" /\ Awaited("upload_part")
    /\ \E r \in Outcomes :
        CASE r = "ok" ->
               /\ parts' = Append(parts, Part(calls[Len(calls)].part_number,
                                              calls[Len(calls)].body))
               /\ current' = <<>>
               /\ calls' = Issue(Respond(calls, r), CompleteReq(parts'))
               /\ pc' = "stream_complete"
               /\ UNCHANGED <<err, result>>
          [] r = "err" ->
               /\ calls' = Issue(Respond(calls, r), AbortReq)
               /\ err' = "upload_part"
               /\ pc' = "stream_abort"
               /\ UNCHANGED <<current, parts, result>>
          [] r = "panic" ->
               /\ calls' = Respond(calls, r) /\ Panic
               /\ UNCHANGED <<current, parts, err>>
    /\ UNCHANGED <<op, data, stream, consumed, i, fpos, buffer, exec, ext>>

StreamAbortReturn ==
    /\ pc = "stream_abort" /\ Awaited("abort_multipart_upload")
    /\ \E r \in Outcomes :
        /\ calls' = Respond(calls, r)
        /\ IF r = "panic" THEN Panic ELSE Return(AfterAbort(err, r))
    /\ UNCHANGED <<op, data, stream, consumed, i, fpos, buffer, current,
                   parts, err, exec, ext>>

\* complete_multipart_upload(..).await.map(|_| ())
StreamCompleteReturn ==
    /\ pc = "stream_complete" /\ Awaited("complete_multipart_upload")
    /\ \E r \in Outcomes :
        /\ calls' = Respond(calls, r)
        /\ CASE r = "ok" -> Return(Ok)
             [] r = "err" -> Return(Err("complete_multipart_upload"))
             [] r = "panic" -> Panic
    /\ UNCHANGED <<op, data, stream, consumed, i, fpos, buffer, current,
                   parts, err, exec, ext>>

(***************************************************************************)
(* fput_object                                                             *)
(***************************************************************************)
FileTooLarge(file_size) == file_size >= MAX_MULTIPART_OBJECT_SIZE

\* the size of part idx of a file
FputSize(idx, file_size) ==
    IF idx = PartCount(file_size) - 1
    THEN file_size - MIN_PART_SIZE * idx
    ELSE MIN_PART_SIZE

\* Outcomes of one file.read_buf(&mut buffer) while `want` bytes are missing:
\* Err (-1), or 1..want bytes (the BytesMut has capacity for no more).
ReadOutcomes(want) == {-1} \cup 1..want

\* head of `for i in 0..part_count` with i = idx and parts = ps
FputLoop(c, idx, ps) ==
    /\ i' = idx
    /\ parts' = ps
    /\ buffer' = <<>>
    /\ IF idx < PartCount(Len(data))
       THEN IF 0 < FputSize(idx, Len(data))
            THEN calls' = c /\ pc' = "fput_read"
            ELSE /\ calls' = Issue(c, UploadPartReq(idx + 1, <<>>))
                 /\ pc' = "fput_part"
       ELSE /\ calls' = Issue(c, CompleteReq(ps))
            /\ pc' = "fput_complete"

CallFputObject ==
    /\ pc = "idle"
    /\ op' = "fput_object"
    /\ \E L \in 0..MaxLen : \E opened \in BOOLEAN :
        IF ~opened
        THEN Return(Err("io")) /\ UNCHANGED <<data, calls>>
        ELSE IF FileTooLarge(L)
        THEN data' = Payload(L) /\ Return(Err("validation")) /\ UNCHANGED calls
        ELSE IF PartCount(L) = 1
        THEN IF 0 < L
             THEN /\ data' = Payload(L)
                  /\ pc' = "fput_read_single"
                  /\ UNCHANGED <<calls, result>>
             ELSE PutObjectEntry(calls, <<>>)
        ELSE /\ data' = Payload(L)
             /\ calls' = Issue(calls, CreateReq)
             /\ pc' = "fput_create"
             /\ UNCHANGED result
    /\ UNCHANGED <<stream, consumed, i, fpos, buffer, current, parts, err,
                   exec, ext>>

\* one read_buf of the single-part branch returned
FputReadSingle ==
    /\ pc = "fput_read_single"
    /\ \E n \in ReadOutcomes(Len(data) - Len(buffer)) :
        IF n < 0
        THEN Return(Err("io")) /\ UNCHANGED <<data, fpos, buffer, calls,
                   ext>>
        ELSE /\ buffer' = buffer \o SubSeq(data, fpos + 1, fpos + n)
             /\ fpos' = fpos + n
             /\ IF Len(buffer') < Len(data)
                THEN UNCHANGED <<pc, data, calls, result>>
                ELSE PutObjectEntry(calls, buffer')
    /\ UNCHANGED <<op, stream, consumed, i, current, parts, err, exec, ext>>

FputCreateReturn ==
    /\ pc = "fput_create" /\ Awaited("create_multipart_upload")
    /\ \E r \in Outcomes :
        IF r = "panic"
        THEN /\ calls' = Respond(calls, r) /\ Panic
             /\ UNCHANGED <<i, parts, buffer,
                   ext>>
        ELSE IF Propagates(r)
        THEN /\ calls' = Respond(calls, r)
             /\ Return(Err("create_multipart_upload"))
             /\ UNCHANGED <<i, parts, buffer,
                   ext>>
        ELSE FputLoop(Respond(calls, r), 0, <<>>) /\ UNCHANGED result
    /\ UNCHANGED <<op, data, stream, consumed, fpos, current, err, exec, ext>>

\* a failed read returns its error at once
FputReadNoAbort ==
    /\ pc = "fput_read"
    /\ \E n \in ReadOutcomes(FputSize(i, Len(data)) - Len(buffer)) :
        IF n < 0
        THEN /\ err' = "io"
             /\ Return(Err("io"))
             /\ UNCHANGED <<fpos, buffer, calls,
                   ext>>
        ELSE /\ buffer' = buffer \o SubSeq(data, fpos + 1, fpos + n)
             /\ fpos' = fpos + n
             /\ IF Len(buffer') < FputSize(i, Len(data))
                THEN UNCHANGED <<pc, calls>>
                ELSE /\ calls' = Issue(calls, UploadPartReq(i + 1, buffer'))
                     /\ pc' = "fput_part"
             /\ UNCHANGED <<err, result>>
    /\ UNCHANGED <<op, data, stream, consumed, i, current, parts, exec, ext>>
\* one read_buf of the multipart branch returned
FputRead ==
    /\ pc = "fput_read"
    /\ \E n \in ReadOutcomes(FputSize(i, Len(data)) - Len(buffer)) :
        IF n < 0
        THEN /\ calls' = Issue(calls, AbortReq)
             /\ err' = "io"
             /\ pc' = "fput_abort"
             /\ UNCHANGED <<fpos, buffer,
                   ext>>
        ELSE /\ buffer' = buffer \o SubSeq(data, fpos + 1, fpos + n)
             /\ fpos' = fpos + n
             /\ IF Len(buffer') < FputSize(i, Len(data))
                THEN UNCHANGED <<pc, calls>>
                ELSE /\ calls' = Issue(calls, UploadPartReq(i + 1, buffer'))
                     /\ pc' = "fput_part"
             /\ UNCHANGED err
    /\ UNCHANGED <<op, data, stream, consumed, i, current, parts, exec, ext,
                   result>>

FputPartReturn ==
    /\ pc = "fput_part" /\ Awaited("upload_part")
    /\ \E r \in Outcomes :
        CASE r = "ok" ->
               /\ FputLoop(Respond(calls, r), i + 1,
                     Append(parts, Part(i + 1, calls[Len(calls)].body)))
               /\ UNCHANGED <<err, result>>
          [] r = "err" ->
               /\ calls' = Issue(Respond(calls, r), AbortReq)
               /\ err' = "upload_part"
               /\ pc' = "fput_abort"
               /\ UNCHANGED <<i, parts, buffer, result,
                   ext>>
          [] r = "panic" ->
               /\ calls' = Respond(calls, r) /\ Panic
               /\ UNCHANGED <<i, parts, buffer, err,
                   ext>>
    /\ UNCHANGED <<op, data, stream, consumed, fpos, current, exec, ext>>

FputAbortReturn ==
    /\ pc = "fput_abort" /\ Awaited("abort_multipart_upload")
    /\ \E r \in Outcomes :
        /\ calls' = Respond(calls, r)
        /\ IF r = "panic" THEN Panic ELSE Return(AfterAbort(err, r))
    /\ UNCHANGED <<op, data, stream, consumed, i, fpos, buffer, current,
                   parts, err, exec, ext>>

\* complete_multipart_upload(..).await?; Ok(())
FputCompleteReturn ==
    /\ pc = "fput_complete" /\ Awaited("complete_multipart_upload")
    /\ \E r \in Outcomes :
        /\ calls' = Respond(calls, r)
        /\ CASE r = "ok" -> Return(Ok)
             [] r = "err" -> Return(Err("complete_multipart_upload"))
             [] r = "panic" -> Panic
    /\ UNCHANGED <<op, data, stream, consumed, i, fpos, buffer, current,
                   parts, err, exec, ext>>

(***************************************************************************)
(* Minio::_execute and Minio::_url_open, BaseExecutor::send and send_ok,   *)
(* bucket_exists and get_bucket_tags                                       *)
(***************************************************************************)
None == [some |-> FALSE, v |-> <<>>]
Some(x) == [some |-> TRUE, v |-> x]

\* Names are sequences of characters.
Lower == {"a", "b", "c", "k"}
Digits == {"1", "9"}

IsIPLiteral(name) ==
    /\ \A k \in 1..Len(name) : name[k] \in Digits \cup {"."}
    /\ Cardinality({k \in 1..Len(name) : name[k] = "."}) = 3
    /\ name # <<>> /\ name[1] # "." /\ name[Len(name)] # "."
    /\ \A k \in 1..Len(name) - 1 : ~(name[k] = "." /\ name[k + 1] = ".")

\* utils::check_bucket_name: TRUE when the name is accepted.
check_bucket_name(name) ==
    /\ Len(name) >= 3 /\ Len(name) <= 63
    /\ \A k \in 1..Len(name) : name[k] \in Lower \cup Digits \cup {".", "-"}
    /\ name[1] # "-" /\ name[Len(name)] # "-"
    /\ ~IsIPLiteral(name)

BucketNames ==
    { <<"a", "b", "c">>, <<"a", ".", "1">>, <<"a", "-", "b", "1">>,
      <<"a", "b">>, <<"a">>, <<"A", "B", "C">>,
      <<"-", "a", "b", "c">>, <<"a", "b", "-">>,
      <<"1", "9", ".", "1", ".", "1", ".", "1">>,
      [k \in 1..64 |-> "a"] }
ObjectNames == { <<>>, <<"k">>, <<"k", "/", "k">> }

ValidationFailsBucketOnly(bucket, object) ==
    bucket.some /\ ~check_bucket_name(bucket.v)
\* the checks at the head of _execute
ValidationFails(bucket, object) ==
    \/ bucket.some /\ ~check_bucket_name(bucket.v)
    \/ object.some /\ object.v = <<>>
    \/ object.some /\ ~bucket.some

(* ---- header maps: header name (lower case) -> value ---- *)
\* HeaderMap::insert: the value of an existing name is replaced
Insert(h, name, v) ==
    [n \in DOMAIN h \cup {name} |-> IF n = name THEN v ELSE h[n]]

\* HeaderMap::entry(name).or_insert(v): an existing value is kept
InsertIfAbsent(h, name, v) == IF name \in DOMAIN h THEN h ELSE Insert(h, name, v)

\* signer::sha256_hash: a hash, told apart by its input
sha256_hash(body) == <<"sha256">> \o body
\* utils::EMPTY_CONTENT_SHA256, the SHA-256 of the empty string
EMPTY_CONTENT_SHA256 == sha256_hash(<<>>)
\* time::aws_format_time
aws_format_time(date) == <<"date", date>>
\* signer::sign_v4_authorization: the value depends on the headers it is
\* given, the keys and the date
sign_v4_authorization(headers, creds, content_sha256, date) ==
    <<"AWS4-HMAC-SHA256", creds.version, date, content_sha256, DOMAIN headers>>

\* the values of the content of a body: (content_sha256, content_length)
ContentSha256(body) ==
    IF body.some THEN sha256_hash(body.v) ELSE EMPTY_CONTENT_SHA256
ContentLength(body) == IF body.some THEN Len(body.v) ELSE 0

_wrap_headers_keeping(headers, content_sha256, date, content_length) ==
    LET h1 == InsertIfAbsent(headers, "user-agent", <<"agent">>)
        h2 == IF content_length > 0
              THEN InsertIfAbsent(h1, "content-length", <<"len", content_length>>)
              ELSE h1
        h3 == InsertIfAbsent(h2, "host", client.chost)
        h4 == InsertIfAbsent(h3, "x-amz-content-sha256", content_sha256)
    IN  InsertIfAbsent(h4, "x-amz-date", aws_format_time(date))
\* Minio::_wrap_headers
_wrap_headers(headers, content_sha256, date, content_length) ==
    LET h1 == Insert(headers, "user-agent", <<"agent">>)
        h2 == IF content_length > 0
              THEN Insert(h1, "content-length", <<"len", content_length>>)
              ELSE h1
        h3 == Insert(h2, "host", client.chost)
        h4 == Insert(h3, "x-amz-content-sha256", content_sha256)
    IN  Insert(h4, "x-amz-date", aws_format_time(date))

\* the credentials _url_open signs with, given the ones its fetch returned
SigningCredentialsFirst(fetched) == [version |-> 0, token |-> fetched.token]
SigningCredentials(fetched) == fetched

(* ---- responses ---- *)
Statuses == {200, 204, 304, 403, 404}
ErrorCodes == {"NoSuchTagSet", "NoSuchBucket"}
\* what the body of a response is: an S3 error document, a tag set, some
\* other text, or a body that cannot be read
ResponseBodies ==
    {[kind |-> "s3error", code |-> c] : c \in ErrorCodes}
    \cup {[kind |-> k, code |-> ""] : k \in {"tags", "garbage", "unreadable"}}
Responses == [status : Statuses, body : ResponseBodies]
NoResponse == [status |-> 0, body |-> [kind |-> "none", code |-> ""]]

OkVal(v) == [ok |-> TRUE, err |-> "none", val |-> v]
ErrS3(code) == [ok |-> FALSE, err |-> "S3Error", code |-> code]

is_success_below_400(status) == status >= 200 /\ status < 400
\* StatusCode::is_success
is_success(status) == status >= 200 /\ status < 300

\* res.text().await
Text(resp) == IF resp.body.kind = "unreadable" THEN Err("reqwest") ELSE OkVal(resp.body)
\* S3Error::try_from(&str)
TryIntoS3Error(body) ==
    IF body.kind = "s3error" THEN OkVal(body.code) ELSE Err("parse")
\* parsing the text of a response as Tags
TryIntoTags(body) ==
    IF body.kind = "tags" THEN OkVal(<<"tags">>) ELSE Err("parse")

\* BaseExecutor::send, given the response of _execute
send(resp) == OkVal(resp)

send_ok_fabricating(resp) ==
    IF is_success(resp.status) THEN OkVal(resp)
    ELSE IF ~Text(resp).ok THEN Text(resp)
    ELSE IF ~TryIntoS3Error(Text(resp).val).ok THEN ErrS3("")
    ELSE ErrS3(TryIntoS3Error(Text(resp).val).val)
\* BaseExecutor::send_ok, given the response of send
send_ok(resp) ==
    IF is_success(resp.status) THEN OkVal(resp)
    ELSE IF ~Text(resp).ok THEN Text(resp)
    ELSE IF ~TryIntoS3Error(Text(resp).val).ok
         THEN TryIntoS3Error(Text(resp).val)
    ELSE ErrS3(TryIntoS3Error(Text(resp).val).val)

\* BaseExecutor::send_xml_ok::<Tags>, given the response of send
send_xml_ok(resp) ==
    IF ~send_ok(resp).ok THEN send_ok(resp)
    ELSE IF ~Text(resp).ok THEN Text(resp)
    ELSE TryIntoTags(Text(resp).val)

bucket_exists_checked(resp) ==
    IF send_ok(resp).ok THEN OkVal(TRUE) ELSE send_ok(resp)
\* bucket_exists: send().await.map(|res| res.status().is_success())
bucket_exists(resp) == OkVal(is_success(resp.status))

get_bucket_tags_any_error(res) ==
    IF res.ok THEN OkVal(Some(res.val))
    ELSE IF res.err = "S3Error" THEN OkVal(None)
    ELSE res
\* get_bucket_tags: the match on the result of send_xml_ok
get_bucket_tags(res) ==
    IF res.ok THEN OkVal(Some(res.val))
    ELSE IF res.err = "S3Error" /\ res.code = "NoSuchTagSet" THEN OkVal(None)
    ELSE res

\* ObjectStat, of which the model keeps the two names
ObjectStat(bucket_name, object_name) ==
    [bucket_name |-> bucket_name, object_name |-> object_name]

stat_object_checked(resp, bucket_name, object_name) ==
    IF ~send_ok(resp).ok THEN send_ok(resp)
    ELSE OkVal(Some(ObjectStat(bucket_name, object_name)))
\* stat_object, given the response of send
stat_object(resp, bucket_name, object_name) ==
    IF ~is_success(resp.status) THEN OkVal(None)
    ELSE OkVal(Some(ObjectStat(bucket_name, object_name)))

\* what the called operation returns once _execute returned Ok(resp)
Finish(o, resp) ==
    CASE o = "execute" -> send(resp)
      [] o = "stat_object" -> stat_object(resp, req.bucket.v, req.object.v)
      [] o = "send_ok" -> send_ok(resp)
      [] o = "bucket_exists" -> bucket_exists(resp)
      [] o = "get_bucket_tags" -> get_bucket_tags(send_xml_ok(resp))

(* ---- the inputs ---- *)
ExecOps ==
    {"execute", "send_ok", "bucket_exists", "get_bucket_tags", "stat_object"}
RequestBodies == {None, Some(<<>>), Some(<<1, 2>>)}
CallerHeaders ==
    { <<>>,
      Insert(<<>>, "range", <<"caller">>),
      Insert(Insert(Insert(<<>>, "host", <<"caller">>),
                    "x-amz-content-sha256", <<"caller">>),
             "x-amz-date", <<"caller">>),
      Insert(<<>>, "content-length", <<"caller">>) }

\* an entry of the log `net`
Event(ev, n, creds, date, headers, at, res) ==
    [ev |-> ev, reqno |-> n, creds |-> creds, date |-> date,
     headers |-> headers, at |-> at, res |-> res]

\* utils::urlencode(key, true): unreserved characters and "/" are kept
Unreserved == {"k", "/"}
urlencode(key) ==
    [j \in 1..Len(key) |->
        IF key[j] \in Unreserved THEN key[j] ELSE "%" \o key[j]]

\* Minio::_build_uri
_build_uri(bucket, key) ==
    IF bucket.some /\ key.some
    THEN client.host \o <<"/">> \o bucket.v \o <<"/">> \o urlencode(key.v)
    ELSE IF bucket.some THEN client.host \o <<"/">> \o bucket.v \o <<"/">>
    ELSE client.host \o <<"/">>

\* the index in `net` of the event `ev` of the running request
Current(ev) ==
    CHOOSE k \in 1..Len(net) : net[k].ev = ev /\ net[k].reqno = reqno

\* An operation of `ops` is called on a request drawn from the given sets:
\* _execute validates, then _url_open runs up to fetch_credentials().await.
ExecuteCall(ops, buckets, objects, bodies, hdrs) ==
    /\ pc = "idle" /\ client.built
    /\ reqno' = reqno + 1
    /\ \E o \in ops : \E b \in buckets : \E k \in objects :
       \E body \in bodies : \E h \in hdrs :
        /\ o \in {"bucket_exists", "get_bucket_tags"} =>
              b.some /\ ~k.some /\ ~body.some
        /\ o = "stat_object" => b.some /\ k.some /\ ~body.some
        /\ op' = o
        /\ req' = [bucket |-> b, object |-> k, body |-> body, headers |-> h]
        /\ IF ValidationFails(b, k)
           THEN Return(Err("validation")) /\ UNCHANGED <<net, loc>>
           ELSE /\ loc' = [headers |-> _wrap_headers(h, ContentSha256(body),
                                         now, ContentLength(body)),
                           content_sha256 |-> ContentSha256(body),
                           date |-> now, resp |-> NoResponse,
                           uri |-> _build_uri(b, k)]
                /\ net' = Append(net, Event("fetch_credentials", reqno',
                                     provider, 0, <<>>, 0, "pending"))
                /\ pc' = "exec_fetch"
                /\ UNCHANGED result
    /\ UNCHANGED <<data, stream, consumed, i, fpos, buffer, current, parts,
                   err, calls, now, provider, setup,
                   ext>>

RequestBuckets == {None} \cup {Some(x) : x \in BucketNames}
RequestObjects == {None} \cup {Some(x) : x \in ObjectNames}

CallExecute ==
    ExecuteCall(ExecOps, RequestBuckets, RequestObjects, RequestBodies,
                CallerHeaders)

\* fetch_credentials() returned: sign, hand the request to the transport
ExecFetchReturn ==
    /\ pc = "exec_fetch"
    /\ LET creds == SigningCredentials(provider)
           auth == sign_v4_authorization(loc.headers, creds,
                                         loc.content_sha256, loc.date)
           sent == Insert(loc.headers, "authorization", auth)
       IN  /\ loc' = [loc EXCEPT !.headers = sent]
           /\ net' = [net EXCEPT ![Current("fetch_credentials")].creds = provider,
                                 ![Current("fetch_credentials")].res = "ok"]
                     \o << Event("sign", reqno, creds, loc.date,
                                 loc.headers, 0, "ok"),
                           Event("send", reqno, creds, loc.date, sent, now,
                                 "pending") >>
    /\ pc' = "exec_send"
    /\ UNCHANGED <<op, data, stream, consumed, i, fpos, buffer, current,
                   parts, err, calls, req, now, provider, reqno, setup,
                   result,
                   ext>>

\* the transport returned: `.send().await.unwrap()`, Ok(request), and the
\* rest of the operation that was called
SendReturn(resps) ==
    /\ pc = "exec_send"
    /\ \/ /\ net' = [net EXCEPT ![Current("send")].res = "fail"]
          /\ Panic
          /\ UNCHANGED loc
       \/ \E resp \in resps :
          /\ net' = [net EXCEPT ![Current("send")].res = "ok"]
          /\ loc' = [loc EXCEPT !.resp = resp]
          /\ Return(Finish(op, resp))
    /\ UNCHANGED <<op, data, stream, consumed, i, fpos, buffer, current,
                   parts, err, calls, req, now, provider, reqno, setup,
                   ext>>

ExecSendReturn == SendReturn(Responses)

(***************************************************************************)
(* Builder: host strings are sequences of tokens, of which the first may   *)
(* be a scheme.                                                            *)
(***************************************************************************)
Schemes == {"http://", "https://"}
NameTokens == {"c", "h", "."}
PortTokens == {":9000"}

\* str::starts_with
StartsWith(s, prefix) == Len(s) >= 1 /\ s[1] = prefix

\* Regex ^(http(s)?://)?[A-Za-z0-9_\-.]+(:\d+)?$
vaild_rg(s) ==
    LET rest == IF Len(s) >= 1 /\ s[1] \in Schemes THEN Tail(s) ELSE s
        name == IF Len(rest) >= 1 /\ rest[Len(rest)] \in PortTokens
                THEN SubSeq(rest, 1, Len(rest) - 1) ELSE rest
    IN  name # <<>> /\ \A k \in 1..Len(name) : name[k] \in NameTokens

Builder_new ==
    [host |-> None, chost |-> None, secure |-> TRUE, region |-> "us-east-1",
     agent |-> "MinIO (Linux; x86_64) minio-rs", provider |-> FALSE]

Builder_host(b, x) == [b EXCEPT !.host = Some(x)]
Builder_chost(b, x) == [b EXCEPT !.host = Some(x)]
Builder_secure(b, x) == [b EXCEPT !.secure = x]
Builder_provider(b) == [b EXCEPT !.provider = TRUE]

NoClient ==
    [built |-> FALSE, host |-> <<>>, chost |-> <<>>, secure |-> FALSE,
     region |-> "", agent |-> ""]

\* Builder::build
Builder_build(b) ==
    IF ~b.host.some THEN Err("Miss host")
    ELSE IF ~vaild_rg(b.host.v) THEN Err("Invalid hostname")
    ELSE IF ~b.provider THEN Err("Miss provide")
    ELSE LET hs == IF StartsWith(b.host.v, "https://")
                   THEN [host |-> Tail(b.host.v), secure |-> TRUE]
                   ELSE IF StartsWith(b.host.v, "http://")
                   THEN [host |-> Tail(b.host.v), secure |-> FALSE]
                   ELSE [host |-> b.host.v, secure |-> b.secure]
         IN  OkVal([built |-> TRUE,
                    host |-> <<IF b.secure THEN "https://" ELSE "http://">>
                             \o hs.host,
                    chost |-> IF b.chost.some THEN b.chost.v
                              ELSE <<"127.0.0.1">>,
                    secure |-> hs.secure,
                    region |-> b.region,
                    agent |-> b.agent])

\* the client of the example in the documentation of Minio:
\* builder().host("localhost:9022").provider(provider).secure(false).build()
DocClient ==
    Builder_build(Builder_secure(Builder_provider(
        Builder_host(Builder_new, <<"h", ":9000">>)), FALSE)).val

Tasks == 1..MaxTasks

(* ---- list_objects_stream ---- *)
Tokens == { <<"t">>, <<"u">> }

\* the objects of page k: the service chooses how many there are
Contents(k, n) == [j \in 1..n |-> <<k, j>>]

\* the ListBucketResult values the service may answer page k with
ListBucketResults(k) ==
    [contents : {Contents(k, n) : n \in 0..MaxPageLen},
     is_truncated : BOOLEAN,
     next_continuation_token : Tokens]

NoPage == [contents |-> <<>>, is_truncated |-> FALSE,
           next_continuation_token |-> <<>>]

\* ListObjectsArgs::new(bucket).max_keys(100).prefix("").delimiter(""),
\* with or without a continuation token
ListObjectsArgs(token) == [continuation_token |-> token]

NextArgsWhenOk(res) ==
    IF res.ok
    THEN Some(ListObjectsArgs(Some(res.val.next_continuation_token)))
    ELSE None
\* the value of `args` after the body of the while loop: args.take() left
\* None, which a successful truncated page replaces
NextArgs(res) ==
    IF res.ok /\ res.val.is_truncated
    THEN Some(ListObjectsArgs(Some(res.val.next_continuation_token)))
    ELSE None

\* the closure of flat_map: the objects of a page, or its error
Flatten(res) ==
    IF res.ok
    THEN [j \in 1..Len(res.val.contents) |-> OkVal(res.val.contents[j])]
    ELSE <<res>>

\* list_objects_stream builds the stream; nothing runs until it is polled
CallListObjectsStream ==
    /\ pc = "idle"
    /\ op' = "list_objects_stream"
    /\ args' = Some(ListObjectsArgs(None))
    /\ pc' = "list_poll"
    /\ UNCHANGED <<data, stream, consumed, i, fpos, buffer, current, parts,
                   err, calls, exec, pages, inner, yielded, file, result>>

\* the consumer polls and the page being flattened is exhausted:
\* `while let Some(arg) = args.take()` calls list_objects or ends the stream
ListPoll ==
    /\ pc = "list_poll" /\ inner = <<>>
    /\ IF args.some
       THEN /\ Len(pages) < MaxPages
            /\ pages' = Append(pages, [args |-> args.v, res |-> "pending",
                                       page |-> NoPage])
            /\ args' = None
            /\ pc' = "list_wait"
            /\ UNCHANGED result
       ELSE Return(Ok) /\ UNCHANGED <<args, pages>>
    /\ UNCHANGED <<op, data, stream, consumed, i, fpos, buffer, current,
                   parts, err, calls, exec, inner, yielded, file>>

\* what list_objects(arg).await gave: the page is recorded, `args` is set
\* and the result is yielded to flat_map
ListAnswer(r, page, res) ==
    /\ pages' = [pages EXCEPT ![Len(pages)].res = r,
                              ![Len(pages)].page = page]
    /\ args' = NextArgs(res)
    /\ inner' = Flatten(res)
    /\ pc' = "list_poll"
    /\ UNCHANGED result

\* list_objects(arg).await returned, or panicked
ListReturn ==
    /\ pc = "list_wait"
    /\ \E r \in Outcomes :
        CASE r = "panic" ->
               /\ pages' = [pages EXCEPT ![Len(pages)].res = r]
               /\ Panic
               /\ UNCHANGED <<args, inner>>
          [] r = "err" -> ListAnswer(r, NoPage, Err("list_objects"))
          [] r = "ok" ->
               \E page \in ListBucketResults(Len(pages)) :
                   ListAnswer(r, page, OkVal(page))
    /\ UNCHANGED <<op, data, stream, consumed, i, fpos, buffer, current,
                   parts, err, calls, exec, yielded, file>>

\* the consumer polls and flat_map hands out the next item of the page
ListYield ==
    /\ pc = "list_poll" /\ inner # <<>>
    /\ yielded' = Append(yielded, Head(inner))
    /\ inner' = Tail(inner)
    /\ UNCHANGED <<op, pc, data, stream, consumed, i, fpos, buffer, current,
                   parts, err, calls, exec, args, pages, file, result>>

(* ---- fget_object ---- *)
GetReq == Request("get_object", 0, <<>>, <<>>)

\* fget_object is called; `stream` is the body the response will deliver,
\* an Err item being a chunk that fails
CallFgetObject ==
    /\ pc = "idle"
    /\ op' = "fget_object"
    /\ \E n \in 0..MaxChunks : \E sizes \in [1..n -> -1..MaxChunkLen] :
          stream' = MkStream(sizes, 0)
    /\ calls' = Issue(calls, GetReq)
    /\ pc' = "fget_get"
    /\ UNCHANGED <<data, consumed, i, fpos, buffer, current, parts, err,
                   exec, ext, result>>

\* get_object(args).await? returned: it ends in send_ok, so an Ok response
\* is a 2xx one and the branch for a non-2xx status is never taken
FgetGetReturn ==
    /\ pc = "fget_get" /\ Awaited("get_object")
    /\ \E r \in Outcomes :
        /\ calls' = Respond(calls, r)
        /\ IF r = "panic" THEN Panic
           ELSE IF Propagates(r) THEN Return(Err("get_object"))
           ELSE pc' = "fget_create" /\ UNCHANGED result
    /\ UNCHANGED <<op, data, stream, consumed, i, fpos, buffer, current,
                   parts, err, exec, ext>>

\* File::create(path).await? returned
FgetCreate ==
    /\ pc = "fget_create"
    /\ \E created \in BOOLEAN :
        IF created
        THEN file' = <<>> /\ pc' = "fget_next" /\ UNCHANGED result
        ELSE Return(Err("io")) /\ UNCHANGED file
    /\ UNCHANGED <<op, data, stream, consumed, i, fpos, buffer, current,
                   parts, err, calls, exec, args, pages, inner, yielded>>

\* what write_all may do with a chunk: write it all (its length), or fail
\* after writing fewer bytes (-1 - bytes written)
WriteOutcomes(len) == {len} \cup {-1 - m : m \in 0..(len - 1)}

\* stream.next().await returned: a chunk is written, an Err item is
\* dropped by `if let Ok(datas) = item`, the end of the stream gives Ok(true)
FgetNext ==
    /\ pc = "fget_next"
    /\ IF consumed < Len(stream)
       THEN /\ consumed' = consumed + 1
            /\ IF stream[consumed + 1].ok
               THEN \E n \in WriteOutcomes(Len(stream[consumed + 1].bytes)) :
                       IF n >= 0
                       THEN /\ file' = file \o stream[consumed + 1].bytes
                            /\ UNCHANGED <<pc, result>>
                       ELSE /\ file' = file \o SubSeq(
                                  stream[consumed + 1].bytes, 1, -1 - n)
                            /\ Return(Err("io"))
               ELSE UNCHANGED <<file, pc, result>>
       ELSE /\ Return(OkVal(TRUE))
            /\ UNCHANGED <<consumed, file>>
    /\ UNCHANGED <<op, data, stream, i, fpos, buffer, current, parts, err,
                   calls, exec, args, pages, inner, yielded>>

InitWith(c) ==
    /\ op = "none"
    /\ pc = "idle"
    /\ data = <<>>
    /\ stream = <<>>
    /\ consumed = 0
    /\ i = 0
    /\ fpos = 0
    /\ buffer = <<>>
    /\ current = <<>>
    /\ parts = <<>>
    /\ err = "none"
    /\ calls = <<>>
    /\ req = [bucket |-> [some |-> FALSE, v |-> <<>>],
             object |-> [some |-> FALSE, v |-> <<>>],
             body |-> [some |-> FALSE, v |-> <<>>],
             headers |-> <<>>]
    /\ net = <<>>
    /\ now = 0
    /\ provider \in {[version |-> 0, token |-> t] : t \in BOOLEAN}
    /\ reqno = 0
    /\ loc = [headers |-> <<>>, content_sha256 |-> <<>>, date |-> 0,
              resp |-> NoResponse, uri |-> <<>>]
    /\ builder = Builder_new
    /\ bcalls = <<>>
    /\ client = c
    /\ lock = 0
    /\ tpc = [t \in Tasks |-> "idle"]
    /\ args = None
    /\ pages = <<>>
    /\ inner = <<>>
    /\ yielded = <<>>
    /\ file = <<>>
    /\ result = Err("none")

Init == InitWith(DocClient)

Next ==
    \/ CallPutObject
    \/ PutObjectReturn
    \/ LargeCreateReturn
    \/ LargePartReturn
    \/ LargeAbortReturn
    \/ LargeCompleteReturn
    \/ CallPutObjectStream
    \/ StreamCreateReturn
    \/ StreamNext
    \/ StreamPartReturn
    \/ StreamLastPartReturn
    \/ StreamAbortReturn
    \/ StreamCompleteReturn
    \/ CallFputObject
    \/ FputReadSingle
    \/ FputCreateReturn
    \/ FputRead
    \/ FputPartReturn
    \/ FputAbortReturn
    \/ FputCompleteReturn
    \/ CallExecute
    \/ ExecFetchReturn
    \/ ExecSendReturn
    \/ CallListObjectsStream
    \/ ListPoll
    \/ ListReturn
    \/ ListYield
    \/ CallFgetObject
    \/ FgetGetReturn
    \/ FgetCreate
    \/ FgetNext

Spec == Init /\ [][Next]_vars

(***************************************************************************)
(* Requests issued one after the other on one client, while the wall clock *)
(* advances and the provider rotates its credentials.                      *)
(***************************************************************************)
SeqOps == {"execute"}
SeqBuckets == {Some(<<"a", "b">>), Some(<<"a", "b", "c">>)}
SeqObjects == {None}
SeqBodies == {None, Some(<<1, 2>>)}
SeqHeaders == {<<>>}
SeqResponses == {[status |-> 200, body |-> [kind |-> "garbage", code |-> ""]]}

CallExecuteSeq ==
    ExecuteCall(SeqOps, SeqBuckets, SeqObjects, SeqBodies, SeqHeaders)

ExecSendReturnSeq == SendReturn(SeqResponses)

\* the caller issues its next request
NextRequest ==
    /\ pc = "done" /\ op \in ExecOps
    /\ reqno < MaxRequests
    /\ pc' = "idle"
    /\ result' = Err("none")
    /\ UNCHANGED <<op, data, stream, consumed, i, fpos, buffer, current,
                   parts, err, calls, exec, ext>>

\* time passes
Tick ==
    /\ now < MaxClock
    /\ now' = now + 1
    /\ UNCHANGED <<op, pc, data, stream, consumed, i, fpos, buffer, current,
                   parts, err, calls, req, net, provider, reqno, loc, setup,
                   result,
                   ext>>

\* the provider's credentials are rotated (an STS refresh, say)
Rotate ==
    /\ provider.version < MaxRotations
    /\ \E t \in BOOLEAN :
        /\ provider' = [version |-> provider.version + 1, token |-> t]
        /\ net' = Append(net, Event("rotate", 0, provider', 0, <<>>, 0, "ok"))
    /\ UNCHANGED <<op, pc, data, stream, consumed, i, fpos, buffer, current,
                   parts, err, calls, req, now, reqno, loc, setup, result,
                   ext>>

NextSeq ==
    \/ CallExecuteSeq
    \/ ExecFetchReturn
    \/ ExecSendReturnSeq
    \/ NextRequest
    \/ Tick
    \/ Rotate

SpecSeq == Init /\ [][NextSeq]_vars

(***************************************************************************)
(* A client is configured with a Builder, built, and used for requests.    *)
(***************************************************************************)
HostStrings ==
    { <<"h">>, <<"h", "/">>, <<"http://", "h">>, <<"https://", "h">> }
CHostStrings == { <<"c">> }

InitBuild == InitWith(NoClient)

\* a setter of the Builder is called: `b` is the Builder it returns
BuilderCall(f, x, flag, b) ==
    /\ pc = "idle" /\ op = "none" /\ ~client.built
    /\ Len(bcalls) < MaxBuilderCalls
    /\ builder' = b
    /\ bcalls' = Append(bcalls, [f |-> f, x |-> x, flag |-> flag])
    /\ UNCHANGED <<op, pc, data, stream, consumed, i, fpos, buffer, current,
                   parts, err, calls, req, net, now, provider, reqno, loc,
                   client, lock, tpc, result,
                   ext>>

CallHost ==
    \E x \in HostStrings : BuilderCall("host", x, FALSE, Builder_host(builder, x))
CallChost ==
    \E x \in CHostStrings :
        BuilderCall("chost", x, FALSE, Builder_chost(builder, x))
CallSecure ==
    \E x \in BOOLEAN : BuilderCall("secure", <<>>, x, Builder_secure(builder, x))
CallProvider == BuilderCall("provider", <<>>, FALSE, Builder_provider(builder))

\* Builder::build consumes the Builder
CallBuild ==
    /\ pc = "idle" /\ op = "none" /\ ~client.built
    /\ op' = "build"
    /\ IF Builder_build(builder).ok
       THEN /\ client' = Builder_build(builder).val
            /\ UNCHANGED <<pc, result>>
       ELSE Return(Builder_build(builder)) /\ UNCHANGED client
    /\ UNCHANGED <<data, stream, consumed, i, fpos, buffer, current, parts,
                   err, calls, req, net, now, provider, reqno, loc, builder,
                   bcalls, lock, tpc,
                   ext>>

NextBuild ==
    \/ CallHost
    \/ CallChost
    \/ CallSecure
    \/ CallProvider
    \/ CallBuild
    \/ CallExecuteSeq
    \/ ExecFetchReturn
    \/ ExecSendReturnSeq

SpecBuild == InitBuild /\ [][NextBuild]_vars

(***************************************************************************)
(* Several tasks send requests on one client (or its clones) at once: each *)
(* runs _url_open, which takes the provider's Mutex for the fetch.         *)
(***************************************************************************)
MayAcquireAlways(l) == TRUE
\* tokio::sync::Mutex::lock().await resolves when the mutex is free
MayAcquire(l) == l = 0

\* the rest of a step of task t
TaskStep(t, to) ==
    /\ tpc' = [tpc EXCEPT ![t] = to]
    /\ UNCHANGED <<op, pc, data, stream, consumed, i, fpos, buffer, current,
                   parts, err, calls, req, net, now, provider, reqno, loc,
                   builder, bcalls, client, result,
                   ext>>

\* _url_open up to self.inner.provider.lock().await
TaskCall ==
    \E t \in Tasks :
        /\ tpc[t] = "idle" /\ client.built
        /\ TaskStep(t, "lock_wait")
        /\ UNCHANGED lock

\* the lock is granted: the task is in provider.fetct().await
TaskAcquire ==
    \E t \in Tasks :
        /\ tpc[t] = "lock_wait" /\ MayAcquire(lock)
        /\ lock' = t
        /\ TaskStep(t, "fetch")

\* fetct() returned: the MutexGuard is dropped at the end of
\* fetch_credentials, the request is signed and handed to the transport
TaskFetchReturn ==
    \E t \in Tasks :
        /\ tpc[t] = "fetch"
        /\ lock' = 0
        /\ TaskStep(t, "send")

\* the transport returned, or failed and the task panicked
TaskSendReturn ==
    \E t \in Tasks :
        /\ tpc[t] = "send"
        /\ \E to \in {"done", "panicked"} : TaskStep(t, to)
        /\ UNCHANGED lock

NextConc ==
    \/ TaskCall
    \/ TaskAcquire
    \/ TaskFetchReturn
    \/ TaskSendReturn

SpecConc == Init /\ [][NextConc]_vars

(***************************************************************************)
(* Properties                                                              *)
(***************************************************************************)
Idx(kind) == {k \in 1..Len(calls) : calls[k].kind = kind}
IsUploadPart(r) == r.kind = "upload_part"
IsUploadedPart(r) == r.kind = "upload_part" /\ r.res = "ok"
\* the upload_part requests, in the order they were issued
UploadSeq == SelectSeq(calls, IsUploadPart)
UploadedSeq == SelectSeq(calls, IsUploadedPart)
Multipart == op \in {"put_object", "put_object_stream", "fput_object"}

RECURSIVE Concat(_)
Concat(ss) == IF ss = <<>> THEN <<>> ELSE Head(ss) \o Concat(Tail(ss))
Bodies(rs) == [k \in 1..Len(rs) |-> rs[k].body]

\* C1: when an upload_part call failed, the operation never calls complete
\* and never returns success; when it has returned, exactly one abort was
\* issued, after the failed part, and the result is the part's error if the
\* abort succeeded and the abort's error if the abort failed.
C1_PartFailureAborts ==
    \A k \in Idx("upload_part") : calls[k].res = "err" =>
        /\ Idx("complete_multipart_upload") = {}
        /\ Cardinality(Idx("abort_multipart_upload")) <= 1
        /\ pc = "done" =>
            /\ ~result.ok
            /\ Cardinality(Idx("abort_multipart_upload")) = 1
            /\ \A a \in Idx("abort_multipart_upload") :
                /\ a > k
                /\ calls[a].res \in {"ok", "err"}
                /\ calls[a].res = "ok" => result = Err("upload_part")
                /\ calls[a].res = "err" => result = Err("abort_multipart_upload")

\* part 2 of put_object_stream failed, the abort succeeded, the part's error
\* was returned
C1_Witness ==
    /\ op = "put_object_stream" /\ pc = "done"
    /\ result = Err("upload_part")
    /\ \E k \in Idx("upload_part") :
          calls[k].part_number = 2 /\ calls[k].res = "err"
    /\ \E a \in Idx("abort_multipart_upload") : calls[a].res = "ok"

\* C2: when all parts were uploaded but complete_multipart_upload failed, an
\* abort_multipart_upload is issued for the session before the operation
\* returns.
C2_CompleteFailureAborts ==
    pc = "done" =>
        \A k \in Idx("complete_multipart_upload") : calls[k].res = "err" =>
            \E a \in Idx("abort_multipart_upload") : a > k

\* C3: when create_multipart_upload failed, the operation has returned that
\* error, no other request was issued and no stream item was consumed.
C3_InitiateFailureIsFatal ==
    \A k \in Idx("create_multipart_upload") : calls[k].res = "err" =>
        /\ Len(calls) = 1
        /\ consumed = 0
        /\ pc = "done"
        /\ result = Err("create_multipart_upload")

\* put_object_stream on a non-empty stream, the initiate call failed
C3_Witness ==
    /\ op = "put_object_stream" /\ Len(stream) > 1 /\ stream[1].ok
    /\ calls[1].kind = "create_multipart_upload" /\ calls[1].res = "err"
    /\ pc = "done"

\* C4: in put_object_large and the multipart branch of fput_object, once all
\* uploads succeeded (complete was issued) the number of parts is 1 if
\* L <= P and L / P + 1 otherwise, every part but the last has P bytes, the
\* last has the remaining bytes, part j carries the bytes from (j-1)*P on,
\* and the parts in order make up the payload.
C4_Splitting ==
    (op \in {"put_object", "fput_object"}
        /\ Idx("complete_multipart_upload") # {}) =>
        LET L == Len(data)
            P == MIN_PART_SIZE
            n == Len(UploadSeq)
            size(j) == IF j < n THEN P ELSE L - (n - 1) * P
        IN  /\ n = IF L <= P THEN 1 ELSE L \div P + 1
            /\ \A j \in 1..n :
                /\ Len(UploadSeq[j].body) = size(j)
                /\ UploadSeq[j].body
                     = [b \in 1..size(j) |-> data[(j - 1) * P + b]]
            /\ Concat(Bodies(UploadSeq)) = data

\* a file of two full parts and a shorter third one, completed
C4_Witness ==
    /\ op = "fput_object" /\ pc = "done" /\ result = Ok
    /\ Len(data) = 2 * MIN_PART_SIZE + 1
    /\ Len(UploadSeq) = 3
    /\ Len(UploadSeq[3].body) = 1

\* C5: every uploaded part that is followed by another part has at least
\* MIN_PART_SIZE bytes, and so has every entry but the last of a part list
\* handed to complete.
C5_NonLastPartsFull ==
    /\ \A j \in 1..Len(UploadSeq) - 1 :
          Len(UploadSeq[j].body) >= MIN_PART_SIZE
    /\ \A c \in Idx("complete_multipart_upload") :
          \A j \in 1..Len(calls[c].parts) - 1 :
              Len(calls[c].parts[j].etag) >= MIN_PART_SIZE

\* a stream of chunks shorter than MIN_PART_SIZE gave a full part and a
\* shorter last part
C5_Witness ==
    /\ op = "put_object_stream"
    /\ \A k \in 1..Len(stream) :
          stream[k].ok /\ Len(stream[k].bytes) < MIN_PART_SIZE
    /\ Idx("complete_multipart_upload") # {}
    /\ Len(UploadSeq) = 2
    /\ Len(UploadSeq[2].body) < MIN_PART_SIZE

\* the offsets in the stream at which a chunk ends
ChunkEnds ==
    {Len(Concat([m \in 1..k |-> stream[m].bytes])) : k \in 0..Len(stream)}
\* number of bytes uploaded by the first j parts
UploadedUpTo(j) == Len(Concat(Bodies(SubSeq(UploadSeq, 1, j))))

\* C6: for a stream of error-free chunks, once all uploads succeeded
\* (complete was issued): each part is a run of whole chunks that was flushed
\* as soon as a chunk arrived with the buffer at MIN_PART_SIZE or more, no
\* part is empty, and the parts in part-number order are the stream's bytes.
C6_StreamRoundTrip ==
    (op = "put_object_stream"
        /\ (\A k \in 1..Len(stream) : stream[k].ok)
        /\ Idx("complete_multipart_upload") # {}) =>
        /\ Concat(Bodies(UploadSeq))
             = Concat([k \in 1..Len(stream) |-> stream[k].bytes])
        /\ \A j \in 1..Len(UploadSeq) :
            /\ UploadSeq[j].body # <<>>
            /\ UploadedUpTo(j) \in ChunkEnds
            /\ \A x \in ChunkEnds :
                  ~(UploadedUpTo(j - 1) + MIN_PART_SIZE <= x
                      /\ x < UploadedUpTo(j))

\* three chunks of one byte were uploaded as a part of two chunks and the
\* rest
C6_Witness ==
    /\ op = "put_object_stream" /\ pc = "done" /\ result = Ok
    /\ Len(stream) = 3
    /\ \A k \in 1..Len(stream) : stream[k].ok /\ Len(stream[k].bytes) = 1
    /\ Len(UploadSeq) = 2

\* C7: the k-th upload_part call carries part number k, and the list handed
\* to complete is the list of the successfully uploaded parts, in the order
\* 1..n.
C7_PartNumbering ==
    /\ \A k \in 1..Len(UploadSeq) : UploadSeq[k].part_number = k
    /\ \A c \in Idx("complete_multipart_upload") :
        /\ calls[c].parts
             = [k \in 1..Len(UploadedSeq) |->
                  Part(UploadedSeq[k].part_number, UploadedSeq[k].body)]
        /\ \A k \in 1..Len(calls[c].parts) :
              calls[c].parts[k].part_number = k

\* put_object_stream completed with three parts
C7_Witness ==
    /\ op = "put_object_stream" /\ pc = "done" /\ result = Ok
    /\ Len(UploadSeq) = 3
    /\ \E c \in Idx("complete_multipart_upload") : Len(calls[c].parts) = 3

\* C8: a complete or abort request is the last request of its session.
C8_TerminalRequestIsLast ==
    \A k \in 1..Len(calls) :
        calls[k].kind \in {"complete_multipart_upload",
                           "abort_multipart_upload"} => k = Len(calls)

\* a session was aborted after its second part, and the operation returned
C8_Witness ==
    /\ Multipart /\ pc = "done"
    /\ Len(UploadSeq) = 2
    /\ calls[Len(calls)].kind = "abort_multipart_upload"
    /\ calls[Len(calls)].res = "err"

\* C9: at most one request is in flight; every upload_part is issued right
\* after the previous request (the initiate, or the part before it) returned
\* successfully; complete is issued only after every earlier request
\* returned successfully.
C9_Sequential ==
    /\ Cardinality({k \in 1..Len(calls) : calls[k].res = "pending"}) <= 1
    /\ \A k \in Idx("upload_part") :
        /\ k > 1 /\ calls[k - 1].res = "ok"
        /\ calls[k].part_number > 1 =>
              /\ calls[k - 1].kind = "upload_part"
              /\ calls[k - 1].part_number = calls[k].part_number - 1
    /\ \A c \in Idx("complete_multipart_upload") :
          \A k \in 1..c - 1 : calls[k].res = "ok"

\* the second part is in flight after the first returned
C9_Witness ==
    /\ op = "put_object" /\ pc = "large_part"
    /\ Len(UploadSeq) = 2
    /\ UploadSeq[1].res = "ok" /\ UploadSeq[2].res = "pending"

\* C10: a request whose bucket name fails check_bucket_name, whose object
\* name is empty, or which has an object name but no bucket name, is
\* returned a validation error with no credential fetch, no signing and no
\* transport call.
C10_ValidationBeforeNetwork ==
    (op = "execute"
        /\ \/ req.bucket.some /\ ~check_bucket_name(req.bucket.v)
           \/ req.object.some /\ req.object.v = <<>>
           \/ req.object.some /\ ~req.bucket.some) =>
        /\ net = <<>>
        /\ pc = "done"
        /\ result = Err("validation")

\* an empty object name in a well-named bucket was rejected
C10_Witness ==
    /\ op = "execute" /\ pc = "done"
    /\ req.bucket = Some(<<"a", "b", "c">>)
    /\ req.object = Some(<<>>)
    /\ result = Err("validation")

(* ---- the request path: one request, any response ---- *)
\* the request of the called operation was answered by the service
Answered ==
    /\ pc = "done"
    /\ \E k \in 1..Len(net) :
          net[k].ev = "send" /\ net[k].reqno = reqno /\ net[k].res = "ok"

SendEvents == {k \in 1..Len(net) : net[k].ev = "send"}

\* C11: whatever the status of the response, the raw send returns the
\* response as a success value; the checked send (send_ok) returns the
\* response only for a 2xx status, and for every other status it returns a
\* failure, which is the S3Error parsed from the body when the body holds one.
C11_RawAndCheckedSend ==
    Answered =>
        /\ op = "execute" => result = OkVal(loc.resp)
        /\ op = "send_ok" =>
            /\ loc.resp.status \in 200..299 => result = OkVal(loc.resp)
            /\ loc.resp.status \notin 200..299 =>
                /\ ~result.ok
                /\ loc.resp.body.kind = "s3error" =>
                      result = ErrS3(loc.resp.body.code)

\* send_ok was answered 304 (not 2xx, not an error status) with an S3 error
\* document and returned that S3Error
C11_Witness ==
    /\ Answered /\ op = "send_ok"
    /\ loc.resp.status = 304
    /\ loc.resp.body = [kind |-> "s3error", code |-> "NoSuchBucket"]
    /\ result = ErrS3("NoSuchBucket")

\* C12: when send_ok is answered a non-2xx status with a body that cannot be
\* parsed into an S3Error, it returns a parse error, which is neither a
\* success nor an S3Error; a body that cannot be read at all gives the error
\* of reading it, again no success and no S3Error.
C12_UnparsableErrorBody ==
    (Answered /\ op = "send_ok" /\ loc.resp.status \notin 200..299) =>
        /\ loc.resp.body.kind \in {"garbage", "tags"} => result = Err("parse")
        /\ loc.resp.body.kind = "unreadable" =>
              ~result.ok /\ result.err # "S3Error"

\* send_ok was answered 403 with a body that is no S3 error document
C12_Witness ==
    /\ Answered /\ op = "send_ok"
    /\ loc.resp.status = 403 /\ loc.resp.body.kind = "garbage"
    /\ result = Err("parse")

(* ---- the request path: requests in sequence ---- *)
EventsOf(ev, n) == {k \in 1..Len(net) : net[k].ev = ev /\ net[k].reqno = n}
Rotations == {k \in 1..Len(net) : net[k].ev = "rotate"}

\* C13: a request that passes validation makes exactly one credential fetch
\* followed by exactly one transport call, and it is signed with the
\* credentials its own fetch returned: every rotation that happened before
\* the fetch of a request was issued is seen by that request.
C13_OneFetchOneSendFreshCredentials ==
    /\ \A n \in 1..reqno :
        /\ Cardinality(EventsOf("fetch_credentials", n)) <= 1
        /\ Cardinality(EventsOf("send", n)) <= 1
        /\ Cardinality(EventsOf("sign", n)) <= 1
        /\ \A s \in EventsOf("send", n) \cup EventsOf("sign", n) :
            \E f \in EventsOf("fetch_credentials", n) :
                /\ f < s
                /\ net[f].res = "ok"
                /\ net[s].creds = net[f].creds
                /\ \A r \in Rotations :
                      r < f => net[s].creds.version >= net[r].creds.version
    /\ (pc \in {"done", "panicked"} /\ op \in ExecOps
            /\ ~ValidationFails(req.bucket, req.object)) =>
        /\ Cardinality(EventsOf("fetch_credentials", reqno)) = 1
        /\ Cardinality(EventsOf("send", reqno)) = 1

\* two requests were answered, the credentials were rotated between them,
\* and the second request was signed with the rotated credentials
C13_Witness ==
    /\ pc = "done" /\ reqno = 2
    /\ \E s1 \in EventsOf("send", 1) : \E r \in Rotations :
       \E f2 \in EventsOf("fetch_credentials", 2) :
       \E s2 \in EventsOf("send", 2) :
        /\ s1 < r /\ r < f2
        /\ net[s1].creds.version = 0
        /\ net[s2].creds.version = 1
        /\ net[s2].res = "ok"

\* C14: when the credentials fetched for a request carry a session token,
\* the request that is signed and the request that is sent both hold an
\* X-Amz-Security-Token header.
C14_SessionTokenHeader ==
    \A k \in 1..Len(net) :
        (net[k].ev \in {"sign", "send"} /\ net[k].creds.token) =>
            "x-amz-security-token" \in DOMAIN net[k].headers

\* C15: the signing timestamp of a request is the time at which the request
\* is handed to the transport: no time passes between reading the clock and
\* the send.
C15_TimestampReadAtSend ==
    \A k \in 1..Len(net) : net[k].ev = "send" => net[k].date = net[k].at

\* C16: when the transport call of a request fails, the operation returns an
\* error value to its caller, after exactly one transport attempt, and the
\* calling task is not terminated.
C16_TransportFailureReturned ==
    \A k \in SendEvents :
        net[k].res = "fail" =>
            /\ pc = "done" /\ ~result.ok
            /\ Cardinality(EventsOf("send", net[k].reqno)) = 1

\* C17: every request handed to the transport has a Host, an
\* X-Amz-Content-Sha256 and an X-Amz-Date header, whatever headers the caller
\* supplied; X-Amz-Content-Sha256 is the SHA-256 of the body if there is a
\* body, and the empty-content sentinel if there is none.
C17_MandatoryHeaders ==
    \A k \in SendEvents :
        /\ {"host", "x-amz-content-sha256", "x-amz-date"}
              \subseteq DOMAIN net[k].headers
        /\ net[k].headers["x-amz-content-sha256"] =
              IF req.body.some THEN sha256_hash(req.body.v)
              ELSE EMPTY_CONTENT_SHA256
        /\ net[k].headers["x-amz-date"] = aws_format_time(net[k].date)

\* a request with a body whose caller supplied the three headers itself was
\* sent with the computed values
C17_Witness ==
    /\ SendEvents # {}
    /\ req.body = Some(<<1, 2>>)
    /\ "x-amz-content-sha256" \in DOMAIN req.headers
    /\ req.headers["x-amz-content-sha256"] = <<"caller">>
    /\ \E k \in SendEvents :
          net[k].headers["x-amz-content-sha256"] = sha256_hash(<<1, 2>>)

\* C18: fput_object rejects, with a validation error and before any request,
\* exactly the files whose size exceeds MAX_MULTIPART_OBJECT_SIZE; a file of
\* exactly the maximum size is not rejected for its size.
C18_RejectsOnlyOversized ==
    (op = "fput_object" /\ data # <<>>) =>
        /\ Len(data) > MAX_MULTIPART_OBJECT_SIZE =>
              pc = "done" /\ result = Err("validation") /\ calls = <<>>
        /\ Len(data) <= MAX_MULTIPART_OBJECT_SIZE => result # Err("validation")

\* C19: get_bucket_tags returns Ok(None) when the service answers with the
\* error code NoSuchTagSet, Ok(Some(tags)) when it answers with a tag set,
\* and every other failure as the error it is: an S3Error of another code, a
\* parse error, a validation error.
C19_GetBucketTags ==
    op = "get_bucket_tags" =>
        /\ (pc = "done" /\ net = <<>>) => result = Err("validation")
        /\ Answered =>
            IF loc.resp.status \in 200..299
            THEN CASE loc.resp.body.kind = "tags" ->
                          result = OkVal(Some(<<"tags">>))
                   [] loc.resp.body.kind = "unreadable" ->
                          result = Err("reqwest")
                   [] OTHER -> result = Err("parse")
            ELSE CASE loc.resp.body.kind = "s3error" ->
                          IF loc.resp.body.code = "NoSuchTagSet"
                          THEN result = OkVal(None)
                          ELSE result = ErrS3(loc.resp.body.code)
                   [] loc.resp.body.kind = "unreadable" ->
                          result = Err("reqwest")
                   [] OTHER -> result = Err("parse")

\* get_bucket_tags was answered 404 NoSuchTagSet and returned Ok(None)
C19_Witness ==
    /\ Answered /\ op = "get_bucket_tags"
    /\ loc.resp.status = 404
    /\ loc.resp.body = [kind |-> "s3error", code |-> "NoSuchTagSet"]
    /\ result = OkVal(None)

\* C20: bucket_exists returns Ok(true) if the request on the bucket is
\* answered with a 2xx status and Ok(false) for any other status, never an
\* error.
C20_BucketExists ==
    (Answered /\ op = "bucket_exists") =>
        result = OkVal(loc.resp.status \in 200..299)

\* bucket_exists was answered 404 with an S3 error document and returned
\* Ok(false)
C20_Witness ==
    /\ Answered /\ op = "bucket_exists"
    /\ loc.resp.status = 404 /\ loc.resp.body.kind = "s3error"
    /\ result = OkVal(FALSE)

(* ---- the Builder ---- *)
\* the argument of the last call of setter f, if there was one
Called(f) == {k \in 1..Len(bcalls) : bcalls[k].f = f}
LastCall(f) == bcalls[CHOOSE k \in Called(f) : \A j \in Called(f) : j <= k]
\* the scheme of a URL
SchemeOf(url) == url[1]
\* a host string without its scheme
HostPart(x) == IF Len(x) >= 1 /\ x[1] \in Schemes THEN Tail(x) ELSE x

\* C21: on a client built after host(y) and chost(x), the Host header of
\* every request is x and the endpoint is still the host y.
C21_ChostSetsHostHeaderOnly ==
    (client.built /\ Called("host") # {} /\ Called("chost") # {}) =>
        /\ client.chost = LastCall("chost").x
        /\ HostPart(client.host) = HostPart(LastCall("host").x)
        /\ \A k \in SendEvents :
              net[k].headers["host"] = LastCall("chost").x

\* C22: when the host string given to the Builder starts with http:// or
\* https://, the base URL of the built client and the URI of every request
\* have the scheme of the host string, whatever secure() was given.
C22_SchemeOfHostStringWins ==
    (client.built /\ Called("host") # {} /\ Called("chost") = {}
        /\ LastCall("host").x[1] \in Schemes) =>
        /\ SchemeOf(client.host) = LastCall("host").x[1]
        /\ pc \in {"exec_fetch", "exec_send"} =>
              SchemeOf(loc.uri) = LastCall("host").x[1]

\* C23: a client built from a host string without a scheme and with no call
\* of secure() uses plain http request URLs.
C23_SecureDefaultsToFalse ==
    (client.built /\ Called("host") # {} /\ Called("chost") = {}
        /\ Called("secure") = {} /\ LastCall("host").x[1] \notin Schemes) =>
        /\ SchemeOf(client.host) = "http://"
        /\ pc \in {"exec_fetch", "exec_send"} => SchemeOf(loc.uri) = "http://"

(* ---- concurrent requests ---- *)
InFetch == {t \in Tasks : tpc[t] = "fetch"}

\* C24: of the requests that run concurrently on one client at most one is
\* inside the provider's fetch; the provider's lock is held exactly by the
\* task that is inside the fetch, so it is released before that task waits
\* on the transport; and the endpoint of the client is never modified.
C24_ProviderSynchronized ==
    /\ Cardinality(InFetch) <= 1
    /\ \A t \in Tasks : (lock = t) <=> (tpc[t] = "fetch")
    /\ \A t \in Tasks : tpc[t] \in {"send", "done", "panicked"} => lock # t
    /\ client = DocClient

\* one task is inside the fetch while a second waits for the lock and a
\* third, which has released it, waits on the transport
C24_Witness ==
    \E t1, t2, t3 \in Tasks :
        /\ tpc[t1] = "fetch" /\ lock = t1
        /\ tpc[t2] = "lock_wait"
        /\ tpc[t3] = "send"

(* ---- single PUT or multipart ---- *)
\* C25: for a payload of at most MIN_PART_SIZE bytes (0 and MIN_PART_SIZE
\* included) put_object, and fput_object once it has read the file, issue
\* exactly one PUT with the whole payload and no request of a multipart
\* session; for a longer payload they issue no PUT and begin with
\* create_multipart_upload.
C25_SinglePutUpToMinPartSize ==
    (op \in {"put_object", "fput_object"} /\ pc # "idle") =>
        IF Len(data) <= MIN_PART_SIZE
        THEN /\ \A k \in 1..Len(calls) : calls[k].kind = "put"
             /\ Len(calls) <= 1
             /\ (op = "put_object" \/ (pc = "done" /\ result # Err("io"))
                    \/ pc \in {"put_send", "panicked"}) =>
                   Len(calls) = 1 /\ calls[1].body = data
        ELSE /\ Idx("put") = {}
             /\ calls # <<>> => calls[1].kind = "create_multipart_upload"
             /\ op = "put_object" => calls # <<>>

\* a file of exactly MIN_PART_SIZE bytes was read and sent with one PUT
C25_Witness ==
    /\ op = "fput_object" /\ pc = "done" /\ result = Ok
    /\ Len(data) = MIN_PART_SIZE
    /\ Len(calls) = 1 /\ calls[1].kind = "put" /\ calls[1].body = data

\* C26: when a read of the file fails in the multipart branch of
\* fput_object, exactly one abort_multipart_upload is issued, it is the last
\* request, no complete_multipart_upload is issued, and the operation
\* returns the I/O error if the abort succeeded and the abort's error if the
\* abort failed.
C26_ReadFailureAborts ==
    (op = "fput_object" /\ err = "io") =>
        /\ Cardinality(Idx("abort_multipart_upload")) = 1
        /\ calls[Len(calls)].kind = "abort_multipart_upload"
        /\ Idx("complete_multipart_upload") = {}
        /\ pc \in {"fput_abort", "done", "panicked"}
        /\ pc = "done" =>
              result = IF calls[Len(calls)].res = "ok" THEN Err("io")
                       ELSE Err("abort_multipart_upload")

\* a read failed after a part had been uploaded, the abort succeeded and the
\* I/O error was returned
C26_Witness ==
    /\ op = "fput_object" /\ err = "io" /\ pc = "done"
    /\ Idx("upload_part") # {}
    /\ calls[Len(calls)].kind = "abort_multipart_upload"
    /\ calls[Len(calls)].res = "ok"
    /\ result = Err("io")

\* C27: a request with a body is sent with a Content-Length header that
\* holds the length of the body, also when that length is 0; a request
\* without a body, whose caller gave no Content-Length, is sent without one.
C27_ContentLength ==
    \A k \in SendEvents :
        IF req.body.some
        THEN /\ "content-length" \in DOMAIN net[k].headers
             /\ net[k].headers["content-length"] = <<"len", Len(req.body.v)>>
        ELSE "content-length" \notin DOMAIN req.headers =>
                "content-length" \notin DOMAIN net[k].headers

\* C28: stat_object returns Ok(None) for every non-2xx response and
\* Ok(Some(stat)) with the bucket and object name of its arguments for a 2xx
\* response; the only error it returns is the validation error.
C28_StatObject ==
    op = "stat_object" =>
        /\ Answered =>
            result = IF loc.resp.status \in 200..299
                     THEN OkVal(Some([bucket_name |-> req.bucket.v,
                                      object_name |-> req.object.v]))
                     ELSE OkVal(None)
        /\ (pc = "done" /\ ~result.ok) =>
              result = Err("validation") /\ net = <<>>

\* stat_object was answered 404 and returned Ok(None)
C28_Witness ==
    /\ Answered /\ op = "stat_object"
    /\ loc.resp.status = 404
    /\ result = OkVal(None)

\* C29: no part uploaded by put_object_large or by the multipart branch of
\* fput_object is empty.
C29_NoEmptyPart ==
    op \in {"put_object", "fput_object"} =>
        \A k \in Idx("upload_part") : Len(calls[k].body) >= 1

\* C30: when put_object_stream has initiated a session and has stopped, and
\* no request of the session panicked, the session was terminated by
\* complete_multipart_upload or abort_multipart_upload and a result was
\* returned to the caller.
C30_StreamSessionTerminated ==
    (op = "put_object_stream" /\ pc \in {"done", "panicked"}
        /\ calls # <<>> /\ calls[1].res = "ok"
        /\ \A k \in 1..Len(calls) : calls[k].res # "panic") =>
        /\ pc = "done"
        /\ calls[Len(calls)].kind \in
              {"complete_multipart_upload", "abort_multipart_upload"}

(* ---- the part list at completion ---- *)
\* C31: every complete_multipart_upload is issued with a part list that is
\* not empty, also by put_object_stream on a stream that yields no byte.
C31_CompleteWithParts ==
    \A k \in Idx("complete_multipart_upload") : calls[k].parts # <<>>

(* ---- list_objects_stream ---- *)
\* the items a page contributes to the stream
ItemsOf(p) ==
    CASE p.res = "ok" ->
           [j \in 1..Len(p.page.contents) |-> OkVal(p.page.contents[j])]
      [] p.res = "err" -> <<Err("list_objects")>>
      [] OTHER -> <<>>

ItemsOfAll(ps) == Concat([k \in 1..Len(ps) |-> ItemsOf(ps[k])])

\* C32: list_objects_stream asks for the first page without a token and for
\* page k+1, with the token of page k, only after page k succeeded and was
\* truncated and all its objects were yielded; the items it yields are the
\* objects of the successful pages in page order and in-page order, then
\* one error item for a failed page; it ends only after a failed page or a
\* successful page that is not truncated, and never before that.
C32_ListObjectsStream ==
    op = "list_objects_stream" =>
        /\ \A k \in 1..Len(pages) :
              pages[k].args.continuation_token =
                  IF k = 1 THEN None
                  ELSE Some(pages[k - 1].page.next_continuation_token)
        /\ \A k \in 2..Len(pages) :
              pages[k - 1].res = "ok" /\ pages[k - 1].page.is_truncated
        /\ yielded \o inner = ItemsOfAll(pages)
        /\ pc = "list_wait" => inner = <<>>
        /\ pc = "done" =>
              /\ pages # <<>> /\ inner = <<>>
              /\ \/ pages[Len(pages)].res = "err"
                 \/ /\ pages[Len(pages)].res = "ok"
                    /\ ~pages[Len(pages)].page.is_truncated

\* two truncated pages with objects were followed by a failed page: the
\* stream yielded their objects, then one error item, and ended
C32_Witness ==
    /\ op = "list_objects_stream" /\ pc = "done"
    /\ Len(pages) = 3 /\ pages[3].res = "err"
    /\ Len(pages[1].page.contents) = 2 /\ Len(pages[2].page.contents) = 1
    /\ yielded = <<OkVal(<<1, 1>>), OkVal(<<1, 2>>), OkVal(<<2, 1>>),
                   Err("list_objects")>>

(* ---- fget_object ---- *)
\* the chunks of the response body
ChunkBytes == [k \in 1..Len(stream) |-> stream[k].bytes]

\* C33: when fget_object returns Ok(true), every chunk of the response body
\* was received without error and the file holds the chunks in order.
C33_FgetSuccessMeansComplete ==
    (op = "fget_object" /\ pc = "done" /\ result = OkVal(TRUE)) =>
        /\ \A k \in 1..Len(stream) : stream[k].ok
        /\ file = Concat(ChunkBytes)

====
